---- MODULE Spec2Model ----
(***************************************************************************)
(* Model of scrapeErowid.py: the Link Collector (get_all_report_links),    *)
(* the Report Fetcher/Extractor with its batched persister                 *)
(* (scrape_erowid_reports), the Cleanup Pass (remove_duplicates_from_csv)  *)
(* and the main script that runs the three in sequence.                    *)
(*                                                                         *)
(* The two files the script works on are modelled as their text:           *)
(*   linksFile   LINKS_FILE, newline-delimited links                       *)
(*   reportsFile REPORTS_FILE, a CSV with a header; a row is modelled by   *)
(*               its Title and Link cells (Title stands for the six        *)
(*               non-key text columns).                                    *)
(* pandas.read_csv and DataFrame.to_csv are modelled by what they do to a  *)
(* cell: an empty cell is read as NaN, a column whose non-empty cells are  *)
(* all numbers is read as int64 (float64 when a cell is empty or has a     *)
(* fraction), anything else is read as strings.                            *)
(***************************************************************************)
EXTENDS Integers, Sequences, FiniteSets, TLC

(***************************************************************************)
(* Bounds of the model.                                                    *)
(***************************************************************************)
\* BATCH_SIZE is 100 in the script; the model scales it down so that batch
\* boundaries fall inside runs of a few links.
BATCH_SIZE == 2
\* most lines an externally provided LINKS_FILE has at the first run
MaxFileLines == 2
\* number of runs of the script
MaxRuns == 2
\* most rows / batch records of the table operations checked on their own
MaxRows == 3
MaxBatch == 2
\* most links of the loop checked on its own
MaxLoopLinks == 6

(***************************************************************************)
(* Text domains.                                                           *)
(***************************************************************************)
\* hrefs that start with "https://www.erowid.org"
ValidLinks ==
    { "https://www.erowid.org/experiences/exp.php?ID=1",
      "https://www.erowid.org/experiences/exp.php?ID=2",
      "https://www.erowid.org/experiences/exp.php?ID=3" }
\* hrefs that match the XPath (contain exp.php?ID=) but are off-domain
OffDomainLinks == { "http://reset.me/exp.php?ID=9" }
Hrefs == ValidLinks \cup OffDomainLinks

\* the k-th report link of a longer list
ReportLink(k) ==
    "https://www.erowid.org/experiences/exp.php?ID=" \o ToString(k)
LoopLinks == { ReportLink(k) : k \in 1..MaxLoopLinks }

\* str.startswith("https://www.erowid.org") over the link texts of the model
startswith_erowid(href) == href \in ValidLinks \cup LoopLinks

\* texts a page's title element can hold after .text.strip(), and the placeholder
PageTitles == { "007" }
UnknownTitle == "Unknown Title"

\* the texts the model has that read_csv parses as numbers, with their values
IntTexts == { "7", "007", "1", "01" }
FloatTexts == { "7.0" }
NumericTexts == IntTexts \cup FloatTexts
NumberOf(text) ==
    CASE text \in { "7", "007", "7.0" } -> 7
      [] text \in { "1", "01" } -> 1

(***************************************************************************)
(* Sequences.                                                              *)
(***************************************************************************)
Range(s) == { s[k] : k \in 1..Len(s) }

SeqsUpTo(S, n) == UNION { [1..k -> S] : k \in 0..n }

\* list(set(xs)): the elements once each, in the order the set iterates,
\* which for str keys depends on the process's hash seed: any order.
ListsOfSet(S) ==
    { s \in [1..Cardinality(S) -> S] : Range(s) = S }

(***************************************************************************)
(* DataFrames: a sequence of rows of cells; a cell is [t, v], t its Python  *)
(* type and v its str().                                                   *)
(***************************************************************************)
NaN == [t |-> "nan", v |-> ""]
Str(text) == [t |-> "str", v |-> text]

ColumnDtype(texts) ==
    LET nonEmpty == Range(texts) \ { "" }
    IN  IF nonEmpty \subseteq NumericTexts
        THEN IF nonEmpty \subseteq IntTexts /\ "" \notin Range(texts)
             THEN "int64"
             ELSE "float64"
        ELSE "object"

ParseCell(dtype, text) ==
    IF text = "" THEN NaN
    ELSE CASE dtype = "int64" -> [t |-> "int64", v |-> ToString(NumberOf(text))]
           [] dtype = "float64" ->
                [t |-> "float64", v |-> ToString(NumberOf(text)) \o ".0"]
           [] OTHER -> Str(text)

\* pd.read_csv(REPORTS_FILE) on the rows of the file
read_csv(rows) ==
    LET titleType == ColumnDtype([k \in 1..Len(rows) |-> rows[k].Title])
        linkType == ColumnDtype([k \in 1..Len(rows) |-> rows[k].Link])
    IN  [k \in 1..Len(rows) |->
            [Title |-> ParseCell(titleType, rows[k].Title),
             Link |-> ParseCell(linkType, rows[k].Link)]]

\* df.to_csv(REPORTS_FILE, index=False): the rows written
to_csv(df) ==
    [k \in 1..Len(df) |->
        [Title |-> IF df[k].Title.t = "nan" THEN "" ELSE df[k].Title.v,
         Link |-> IF df[k].Link.t = "nan" THEN "" ELSE df[k].Link.v]]

\* pd.DataFrame(all_data): the records' strings as they are
DataFrame(records) ==
    [k \in 1..Len(records) |->
        [Title |-> Str(records[k].Title), Link |-> Str(records[k].Link)]]

\* pd.concat([a, b], ignore_index=True)
concat(a, b) == a \o b

\* df.drop_duplicates(subset="Link"): keep the first row of each Link
\* value; NaN counts as equal to NaN
drop_duplicates(df) ==
    LET keep(k) == \A j \in 1..(k - 1) : df[j].Link # df[k].Link
        F[k \in 0..Len(df)] ==
            IF k = 0 THEN << >>
            ELSE IF keep(k) THEN Append(F[k - 1], df[k]) ELSE F[k - 1]
    IN  F[Len(df)]

(***************************************************************************)
(* The files.                                                              *)
(***************************************************************************)
NoFile == [exists |-> FALSE, rows |-> << >>]
File(rows) == [exists |-> TRUE, rows |-> rows]

\* SaveBatch without the drop_duplicates of line 142
SaveBatch_NoBatchDedup(file, records) ==
    LET df_batch == DataFrame(records)
    IN  IF file.exists
        THEN File(to_csv(drop_duplicates(concat(read_csv(file.rows), df_batch))))
        ELSE File(to_csv(df_batch))

\* SaveBatch writing df_batch over an existing file, without the concat of line 138
SaveBatch_Overwrite(file, records) ==
    File(to_csv(drop_duplicates(DataFrame(records))))

\* Lines 134-143: the flush of the accumulated records into REPORTS_FILE
SaveBatch(file, records) ==
    LET df_batch == DataFrame(records)
    IN  IF file.exists
        THEN File(to_csv(drop_duplicates(concat(read_csv(file.rows), df_batch))))
        ELSE File(to_csv(drop_duplicates(df_batch)))

\* CleanFile without the drop_duplicates of line 156
CleanFile_NoDrop(file) ==
    IF file.exists THEN File(to_csv(read_csv(file.rows))) ELSE file

\* Lines 151-159: remove_duplicates_from_csv
CleanFile(file) ==
    IF file.exists
    THEN File(to_csv(drop_duplicates(read_csv(file.rows))))
    ELSE file

\* the Link texts of the rows of the table
TableLinks(file) == { file.rows[k].Link : k \in 1..Len(file.rows) }

NoDuplicateLinks(file) ==
    \A j, k \in 1..Len(file.rows) :
        j # k => file.rows[j].Link # file.rows[k].Link

(***************************************************************************)
(* Pages: what BeautifulSoup finds in driver.page_source. An element is    *)
(* its .text, or Missing when soup.find returns None.                      *)
(***************************************************************************)
Missing == "<None>"

\* str.strip() and str.replace("by", "") over the element texts of the model
strip(text) ==
    CASE text = " 007 " -> "007"
      [] text = " LSD " -> "LSD"
      [] text = " Ab" -> "Ab"
      [] text = " 70 kg" -> "70 kg"
      [] OTHER -> text
replace_by(text) ==
    CASE text = "by Abby" -> " Ab"
      [] OTHER -> text

TitleElements == { " 007 " }
SubstanceElements == { " LSD " }
AuthorElements == { "by Abby" }
BodyweightElements == { " 70 kg" }
ReportTextElements == { "It began." }
\* the rows of table.dosechart, each the texts of its td cells, stripped:
\* no row, a row of four cells, a row of five cells
DoseCharts ==
    { << >>,
      << << "T+ 0:00", "1 hit", "oral", "LSD" >> >>,
      << << "T+ 0:00", "1 hit", "oral", "LSD", "(blotter)" >> >> }

\* raised by None.text
AttributeError == "<AttributeError>"

\* sep.join(texts)
RECURSIVE join(_, _)
join(sep, texts) ==
    IF texts = << >> THEN ""
    ELSE IF Len(texts) = 1 THEN texts[1]
    ELSE texts[1] \o sep \o join(sep, Tail(texts))

\* Lines 94-95
title_of(element) ==
    IF element # Missing THEN strip(element) ELSE UnknownTitle
\* Lines 97-98
substance_of(element) ==
    IF element # Missing THEN strip(element) ELSE "Unknown Substance"

\* Line 101 without its `if author_element`
author_of_Unguarded(element) ==
    IF element # Missing THEN strip(replace_by(element)) ELSE AttributeError

\* Lines 100-101
author_of(element) ==
    IF element # Missing THEN strip(replace_by(element)) ELSE "Unknown"
\* Lines 103-104
bodyweight_of(element) ==
    IF element # Missing THEN strip(element) ELSE "Unknown"
\* Lines 106-113
dose_chart_of(rows) ==
    LET five == SelectSeq(rows, LAMBDA cols : Len(cols) = 5)
        dose_chart_entries == [k \in 1..Len(five) |-> join(" | ", five[k])]
    IN  IF dose_chart_entries # << >>
        THEN join("\n", dose_chart_entries)
        ELSE "No Dose Chart Available"
\* Lines 115-116
report_text_of(element) ==
    IF element # Missing THEN element ELSE "No Text Available"

\* Lines 94-126: the record appended for the page fetched from href
ExtractRecord(page, link) ==
    [Title |-> title_of(page.title),
     Substance |-> substance_of(page.substance),
     Author |-> author_of(page.author),
     Bodyweight |-> bodyweight_of(page.bodyweight),
     DoseChart |-> dose_chart_of(page.dosechart),
     ReportText |-> report_text_of(page.report_text),
     Link |-> link]

\* an exception left one of the expressions of lines 94-116
Raised(record) ==
    \E f \in DOMAIN record : record[f] = AttributeError

ReportPage(t, s, a, b, d, x) ==
    [ban |-> FALSE, deep |-> FALSE, h2 |-> Missing, title |-> t,
     substance |-> s, author |-> a, bodyweight |-> b, dosechart |-> d,
     report_text |-> x]
\* a page with none of the elements: no page yet, or a page of another site
BlankPage ==
    ReportPage(Missing, Missing, Missing, Missing, << >>, Missing)
\* the page with "403 Forbidden: Your IP Address Has Been Blocked"
BanPage(h2) ==
    [BlankPage EXCEPT !.ban = TRUE,
                      !.h2 = IF h2 THEN "Your IP: 203.0.113.7" ELSE Missing]
\* a page nested so deep that .text runs into RecursionError
DeepPage == [BlankPage EXCEPT !.deep = TRUE]

\* every report page: each element present or missing
Pages ==
    { ReportPage(t, s, a, b, d, x) :
        t \in TitleElements \cup { Missing },
        s \in SubstanceElements \cup { Missing },
        a \in AuthorElements \cup { Missing },
        b \in BodyweightElements \cup { Missing },
        d \in DoseCharts,
        x \in ReportTextElements \cup { Missing } }
\* the report pages of the runs of the whole script: whole, or without title
LoopPages ==
    { ReportPage(t, " LSD ", "by Abby", " 70 kg", << >>, "It began.") :
        t \in TitleElements \cup { Missing } }

(***************************************************************************)
(* State.                                                                  *)
(***************************************************************************)
VARIABLES
    linksFile,        \* LINKS_FILE: [exists, lines]
    reportsFile,      \* REPORTS_FILE: [exists, rows]
    pc,               \* position of the script
    report_links,     \* the list returned by get_all_report_links / looped over
    i,                \* index of the loop of scrape_erowid_reports (0-based)
    all_data,         \* records extracted and not yet flushed
    soup,             \* the page of the last fetch that returned (lines 79-80)
    processed_count,
    scraped_links,    \* cells of the Link column, plus the hrefs extracted
    quits,            \* calls of driver.quit() in this run
    run,              \* number of the run of the script
    fetched,          \* history: hrefs passed to driver.get in the loop, this run
    startFetches,     \* history: driver.get(start_url) calls, all runs
    flushes,          \* history: batch flushes of this run
    timedOut,         \* history: hrefs whose fetch timed out, this run
    prevTimedOut,     \* history: timedOut of the previous run
    banned,           \* history: the ban signature was seen in this run
    fileAtStart       \* history: REPORTS_FILE when this run started

vars == << linksFile, reportsFile, pc, report_links, i, all_data, soup,
           processed_count, scraped_links, quits, run, fetched, startFetches,
           flushes, timedOut, prevTimedOut, banned, fileAtStart >>

procVars == << report_links, i, all_data, soup, processed_count,
              scraped_links >>
histVars == << fetched, startFetches, flushes, timedOut, prevTimedOut, banned,
               fileAtStart >>

\* Lines 10-12 and the variables of a process that has not run yet
FreshProcess ==
    /\ pc = "links"
    /\ report_links = << >>
    /\ i = 0
    /\ all_data = << >>
    /\ soup = BlankPage
    /\ processed_count = 0
    /\ scraped_links = {}
    /\ quits = 0

\* LINKS_FILE as the first run can find it: absent, or left there by hand
ExternalLinkFiles ==
    { [exists |-> TRUE, lines |-> ls] : ls \in SeqsUpTo(Hrefs, MaxFileLines) }

Init ==
    /\ FreshProcess
    /\ linksFile \in { [exists |-> FALSE, lines |-> << >>] } \cup ExternalLinkFiles
    /\ reportsFile = NoFile
    /\ run = 1
    /\ fetched = << >>
    /\ startFetches = 0
    /\ flushes = 0
    /\ timedOut = {}
    /\ prevTimedOut = {}
    /\ banned = FALSE
    /\ fileAtStart = NoFile

(***************************************************************************)
(* get_all_report_links, lines 19-43 (called at line 162).                 *)
(***************************************************************************)
\* Lines 21-24: LINKS_FILE exists
LoadLinks ==
    /\ linksFile.exists
    /\ report_links' \in ListsOfSet(Range(linksFile.lines))
    /\ pc' = "scrape"
    /\ UNCHANGED << linksFile, startFetches >>

\* Lines 26-43: fetch the index page, keep the on-domain hrefs, write the file
FetchIndex ==
    /\ startFetches' = startFetches + 1
    /\ \/ \E page \in SUBSET Hrefs :
            \E links \in ListsOfSet({ h \in page : startswith_erowid(h) }) :
                /\ report_links' = links
                /\ linksFile' = [exists |-> TRUE, lines |-> links]
                /\ pc' = "scrape"
       \/ \* driver.get(start_url) raises TimeoutException: not caught
          /\ pc' = "crashed"
          /\ UNCHANGED << report_links, linksFile >>

\* Line 21 and its else
CollectLinks == ~linksFile.exists /\ FetchIndex

\* get_all_report_links without the os.path.exists test of line 21
get_all_report_links_AlwaysCollect ==
    /\ pc = "links"
    /\ FetchIndex
    /\ UNCHANGED << reportsFile, i, all_data, soup, processed_count,
                    scraped_links,
                    quits, run, fetched, flushes, timedOut, prevTimedOut,
                    banned, fileAtStart >>

get_all_report_links ==
    /\ pc = "links"
    /\ LoadLinks \/ CollectLinks
    /\ UNCHANGED << reportsFile, i, all_data, soup, processed_count,
                    scraped_links,
                    quits, run, fetched, flushes, timedOut, prevTimedOut,
                    banned, fileAtStart >>

(***************************************************************************)
(* scrape_erowid_reports, lines 45-149 (called at line 163).               *)
(***************************************************************************)
\* LoadScrapedLinks that never reads the file
LoadScrapedLinks_Empty(file) == {}

\* Lines 51-55
LoadScrapedLinks(file) ==
    IF file.exists
    THEN LET existing_df == read_csv(file.rows)
         IN  { existing_df[k].Link : k \in 1..Len(existing_df) } \ { NaN }
    ELSE {}

\* where the loop goes after iteration n of a list of length len
AfterIteration(n, len) == IF n = len THEN "finish" ELSE "loop"

\* Lines 47-60
ScrapeInit ==
    /\ pc = "scrape"
    /\ all_data' = << >>
    /\ processed_count' = 0
    /\ scraped_links' = LoadScrapedLinks(reportsFile)
    /\ \E order \in ListsOfSet(Range(report_links)) :
          report_links' = SelectSeq(order, LAMBDA link : Str(link) \notin scraped_links')
    /\ i' = 0
    /\ pc' = AfterIteration(0, Len(report_links'))
    /\ UNCHANGED << linksFile, reportsFile, soup, quits, run, histVars >>

\* the loop running over reversed(report_links)
href_Reversed == report_links[Len(report_links) - i]

\* Line 64: the link of iteration i
href == report_links[i + 1]

\* `continue`: the next iteration, or the end of the loop
Continue ==
    /\ i' = i + 1
    /\ pc' = AfterIteration(i + 1, Len(report_links))

\* Lines 66-71: already scraped, or not on the domain
SkipLink ==
    /\ pc = "loop"
    /\ Str(href) \in scraped_links \/ ~startswith_erowid(href)
    /\ Continue
    /\ UNCHANGED << linksFile, reportsFile, report_links, all_data, soup,
                    processed_count, scraped_links, quits, run, histVars >>

\* Fetchable without the tests of lines 66 and 69
Fetchable_Unchecked == pc = "loop"

\* Lines 66-74: the href gets as far as driver.get
Fetchable ==
    /\ pc = "loop"
    /\ Str(href) \notin scraped_links
    /\ startswith_erowid(href)

\* FetchTimeout that marks the href as scraped
FetchTimeout_MarksScraped ==
    /\ Fetchable
    /\ fetched' = Append(fetched, href)
    /\ UNCHANGED soup
    /\ timedOut' = timedOut \cup { href }
    /\ scraped_links' = scraped_links \cup { Str(href) }
    /\ Continue
    /\ UNCHANGED << linksFile, reportsFile, report_links, all_data,
                    processed_count, quits, run, startFetches,
                    flushes, prevTimedOut, banned, fileAtStart >>

\* Lines 73-77: driver.get(href) raises TimeoutException
FetchTimeout ==
    /\ Fetchable
    /\ fetched' = Append(fetched, href)
    /\ UNCHANGED soup
    /\ timedOut' = timedOut \cup { href }
    /\ Continue
    /\ UNCHANGED << linksFile, reportsFile, report_links, all_data,
                    processed_count, scraped_links, quits, run, startFetches,
                    flushes, prevTimedOut, banned, fileAtStart >>

\* BanDetected with `continue` in place of the `break` of line 87
BanDetected_Continues ==
    /\ Fetchable
    /\ fetched' = Append(fetched, href)
    /\ soup' = BanPage(TRUE)
    /\ banned' = TRUE
    /\ quits' = quits + 1
    /\ Continue
    /\ UNCHANGED << linksFile, reportsFile, report_links, all_data,
                    processed_count, scraped_links, run, startFetches,
                    flushes, timedOut, prevTimedOut, fileAtStart >>

\* Lines 82-87: the ban page. soup.find("h2") is None on a page without an
\* h2 element, and .text then raises AttributeError, which nothing catches.
BanDetected ==
    /\ Fetchable
    /\ fetched' = Append(fetched, href)
    /\ banned' = TRUE
    /\ \E h2 \in BOOLEAN :
          /\ soup' = BanPage(h2)
          /\ IF h2 THEN /\ quits' = quits + 1
                        /\ pc' = "finish"
                   ELSE /\ quits' = quits
                        /\ pc' = "crashed"
    /\ UNCHANGED << linksFile, reportsFile, report_links, i, all_data,
                    processed_count, scraped_links, run, startFetches,
                    flushes, timedOut, prevTimedOut, fileAtStart >>

\* Redirected that marks the href as scraped
Redirected_MarksScraped ==
    /\ Fetchable
    /\ fetched' = Append(fetched, href)
    /\ soup' = BlankPage
    /\ scraped_links' = scraped_links \cup { Str(href) }
    /\ Continue
    /\ UNCHANGED << linksFile, reportsFile, report_links, all_data,
                    processed_count, quits, run, startFetches,
                    flushes, timedOut, prevTimedOut, banned, fileAtStart >>

\* Lines 89-91: redirected to reset.me or wordpress.com
Redirected ==
    /\ Fetchable
    /\ fetched' = Append(fetched, href)
    /\ soup' = BlankPage
    /\ Continue
    /\ UNCHANGED << linksFile, reportsFile, report_links, all_data,
                    processed_count, scraped_links, quits, run, startFetches,
                    flushes, timedOut, prevTimedOut, banned, fileAtStart >>

\* ExtractError with the record appended before the exception is raised
ExtractError_PartialRecord ==
    /\ Fetchable
    /\ fetched' = Append(fetched, href)
    /\ soup' = DeepPage
    /\ all_data' = Append(all_data, ExtractRecord(BlankPage, href))
    /\ Continue
    /\ UNCHANGED << linksFile, reportsFile, report_links,
                    processed_count, scraped_links, quits, run, startFetches,
                    flushes, timedOut, prevTimedOut, banned, fileAtStart >>

\* Lines 93-117 raise, lines 129-131 catch: nothing was appended
ExtractError ==
    /\ Fetchable
    /\ fetched' = Append(fetched, href)
    /\ soup' = DeepPage
    /\ Continue
    /\ UNCHANGED << linksFile, reportsFile, report_links, all_data,
                    processed_count, scraped_links, quits, run, startFetches,
                    flushes, timedOut, prevTimedOut, banned, fileAtStart >>

\* Lines 135-145: df_batch is written and the accumulator cleared
Flush(data) ==
    /\ reportsFile' = SaveBatch(reportsFile, data)
    /\ all_data' = << >>
    /\ flushes' = flushes + 1

\* Line 134
BatchBoundary(n, len) == n % BATCH_SIZE = 0 \/ n = len

\* Lines 129-131: `except Exception`, nothing was appended
Except ==
    /\ Continue
    /\ UNCHANGED << reportsFile, all_data, processed_count, scraped_links,
                    flushes >>

\* Lines 93-128, then lines 133-145, for a page out of pages
ExtractFrom(pages) ==
    /\ Fetchable
    /\ fetched' = Append(fetched, href)
    /\ \E page \in pages :
          /\ soup' = page
          /\ LET record == ExtractRecord(page, href)
                 data == Append(all_data, record)
             IN  IF Raised(record)
                 THEN Except
                 ELSE /\ IF BatchBoundary(i + 1, Len(report_links))
                         THEN Flush(data)
                         ELSE /\ all_data' = data
                              /\ UNCHANGED << reportsFile, flushes >>
                      /\ processed_count' = processed_count + 1
                      /\ scraped_links' = scraped_links \cup { Str(href) }
                      /\ Continue
    /\ UNCHANGED << linksFile, report_links, quits, run, startFetches,
                    timedOut, prevTimedOut, banned, fileAtStart >>

ExtractOk == ExtractFrom(LoopPages)

\* Lines 147-149. After the ban path the driver has already quit; what a
\* second driver.quit() does is up to the driver: it returns or it raises.
Finish ==
    /\ pc = "finish"
    /\ quits' = quits + 1
    /\ \/ pc' = "cleanup"
       \/ quits >= 1 /\ pc' = "crashed"
    /\ UNCHANGED << linksFile, reportsFile, procVars, run, histVars >>

(***************************************************************************)
(* remove_duplicates_from_csv, lines 151-159 (called at line 164).         *)
(***************************************************************************)
remove_duplicates_from_csv ==
    /\ pc = "cleanup"
    /\ reportsFile' = CleanFile(reportsFile)
    /\ pc' = "done"
    /\ UNCHANGED << linksFile, procVars, quits, run, histVars >>

(***************************************************************************)
(* The script is run again: a new process, the files as they were left.    *)
(***************************************************************************)
StartRun ==
    /\ pc \in { "done", "crashed" }
    /\ run < MaxRuns
    /\ run' = run + 1
    /\ pc' = "links"
    /\ report_links' = << >>
    /\ i' = 0
    /\ all_data' = << >>
    /\ soup' = BlankPage
    /\ processed_count' = 0
    /\ scraped_links' = {}
    /\ quits' = 0
    /\ fetched' = << >>
    /\ flushes' = 0
    /\ prevTimedOut' = timedOut
    /\ timedOut' = {}
    /\ banned' = FALSE
    /\ fileAtStart' = reportsFile
    /\ UNCHANGED << linksFile, reportsFile, startFetches >>

Next ==
    \/ get_all_report_links
    \/ ScrapeInit
    \/ SkipLink
    \/ FetchTimeout
    \/ BanDetected
    \/ Redirected
    \/ ExtractError
    \/ ExtractOk
    \/ Finish
    \/ remove_duplicates_from_csv
    \/ StartRun

Spec == Init /\ [][Next]_vars

(***************************************************************************)
(* The table operations on their own: the batch flush and the Cleanup Pass *)
(* applied to any REPORTS_FILE (rows in any order, duplicate, empty or     *)
(* numeric Link cells) and any batch of extracted records.                 *)
(***************************************************************************)
TableTitles == { "x", "007", "" }
TableLinkTexts ==
    { "https://www.erowid.org/experiences/exp.php?ID=1", "", "1", "01" }
TableRows == [Title : TableTitles, Link : TableLinkTexts]
Tables == { NoFile } \cup { File(rows) : rows \in SeqsUpTo(TableRows, MaxRows) }

\* records as line 118 appends them: the href passed the prefix check
BatchLinks ==
    { "https://www.erowid.org/experiences/exp.php?ID=1",
      "https://www.erowid.org/experiences/exp.php?ID=2" }
BatchRecords == { ExtractRecord(page, link) : page \in LoopPages, link \in BatchLinks }
Batches == SeqsUpTo(BatchRecords, MaxBatch)

InitTable ==
    /\ reportsFile \in Tables
    /\ all_data \in Batches
    /\ soup = BlankPage
    /\ pc = IF all_data = << >> THEN "cleanup" ELSE "flush"
    /\ fileAtStart = reportsFile
    /\ linksFile = [exists |-> FALSE, lines |-> << >>]
    /\ report_links = << >>
    /\ i = 0
    /\ processed_count = Len(all_data)
    /\ scraped_links = {}
    /\ quits = 0
    /\ run = 1
    /\ fetched = << >>
    /\ startFetches = 0
    /\ flushes = 0
    /\ timedOut = {}
    /\ prevTimedOut = {}
    /\ banned = FALSE

\* Lines 135-145 applied to the batch
FlushBatch ==
    /\ pc = "flush"
    /\ Flush(all_data)
    /\ pc' = "cleanup"
    /\ UNCHANGED << linksFile, report_links, i, soup, processed_count,
                    scraped_links, quits, run, fetched, startFetches, timedOut, prevTimedOut,
                    banned, fileAtStart >>

NextTable == FlushBatch \/ remove_duplicates_from_csv

SpecTable == InitTable /\ [][NextTable]_vars

(***************************************************************************)
(* The extraction on its own: two new links, the first page fetched is any *)
(* report page, each of its elements present or missing.                   *)
(***************************************************************************)
InitExtract ==
    /\ \E links \in SUBSET ValidLinks :
          /\ Cardinality(links) = 2
          /\ report_links \in ListsOfSet(links)
    /\ linksFile = [exists |-> TRUE, lines |-> report_links]
    /\ reportsFile = NoFile
    /\ pc = "loop"
    /\ i = 0
    /\ all_data = << >>
    /\ soup = BlankPage
    /\ processed_count = 0
    /\ scraped_links = {}
    /\ quits = 0
    /\ run = 1
    /\ fetched = << >>
    /\ startFetches = 0
    /\ flushes = 0
    /\ timedOut = {}
    /\ prevTimedOut = {}
    /\ banned = FALSE
    /\ fileAtStart = NoFile

ExtractAnyPage == ExtractFrom(Pages)

NextExtract == ExtractAnyPage \/ Finish \/ remove_duplicates_from_csv

SpecExtract == InitExtract /\ [][NextExtract]_vars

(***************************************************************************)
(* The loop on its own, over longer lists: a first run that found up to    *)
(* MaxLoopLinks new links, at line 64.                                     *)
(***************************************************************************)
InitLoop ==
    /\ \E n \in 1..MaxLoopLinks : report_links = [k \in 1..n |-> ReportLink(k)]
    /\ linksFile = [exists |-> TRUE, lines |-> report_links]
    /\ reportsFile = NoFile
    /\ pc = "loop"
    /\ i = 0
    /\ all_data = << >>
    /\ soup = BlankPage
    /\ processed_count = 0
    /\ scraped_links = {}
    /\ quits = 0
    /\ run = 1
    /\ fetched = << >>
    /\ startFetches = 1
    /\ flushes = 0
    /\ timedOut = {}
    /\ prevTimedOut = {}
    /\ banned = FALSE
    /\ fileAtStart = NoFile

NextLoop ==
    \/ FetchTimeout
    \/ BanDetected
    \/ Redirected
    \/ ExtractError
    \/ ExtractOk
    \/ Finish
    \/ remove_duplicates_from_csv

SpecLoop == InitLoop /\ [][NextLoop]_vars

(***************************************************************************)
(* Properties.                                                             *)
(***************************************************************************)
\* the loop of this run is over and no ban was seen
LoopCompleted == pc \in { "finish", "cleanup", "done" } /\ ~banned

\* ceil(n / BATCH_SIZE)
BatchesOf(n) == (n + BATCH_SIZE - 1) \div BATCH_SIZE

\* C1: a flush happens each time the number of successful extractions
\* reaches a multiple of BATCH_SIZE and once more at completion for the
\* rest, so a completed run of n records has flushed ceil(n / BATCH_SIZE)
\* times (3 for 250 records and a batch size of 100), whatever links were
\* skipped, timed out or failed in between.
C1_FlushPerBatch == LoopCompleted => flushes = BatchesOf(processed_count)

\* C2: when the loop has run to completion without a ban, the accumulator
\* is empty and every link extracted has a row in the Report Table,
\* whatever the outcome of the last link.
C2_FinalFlush ==
    LoopCompleted =>
        /\ all_data = << >>
        /\ \A c \in scraped_links : c.v \in TableLinks(reportsFile)

\* C3: after remove_duplicates_from_csv has run, no two rows of the Report
\* Table share a Link value.
C3_CleanupUnique == pc = "done" => NoDuplicateLinks(reportsFile)

\* C3 witness: the Cleanup Pass ran on a table that had duplicate links
C3_Witness ==
    /\ pc = "done"
    /\ flushes = 0
    /\ ~NoDuplicateLinks(fileAtStart)
    /\ Len(reportsFile.rows) < Len(fileAtStart.rows)

\* C4: the Cleanup Pass is idempotent: running it again on the table it
\* left gives the same rows in the same order.
C4_CleanupIdempotent == pc = "done" => CleanFile(reportsFile) = reportsFile

\* C5: if every link of the Link Set has a row in the Report Table when
\* the run starts, the run fetches no report page, flushes nothing, and
\* leaves the Report Table, cleanup included, with the rows it had.
C5_NothingToDo ==
    ( /\ pc = "done"
      /\ linksFile.exists
      /\ Range(linksFile.lines) \subseteq TableLinks(fileAtStart) )
    => /\ fetched = << >>
       /\ flushes = 0
       /\ reportsFile = fileAtStart

\* C5 witness: a second run over a Link Set that the first run scraped whole
C5_Witness ==
    /\ pc = "done"
    /\ run = 2
    /\ Cardinality(Range(linksFile.lines)) >= 2
    /\ Range(linksFile.lines) \subseteq TableLinks(fileAtStart)
    /\ reportsFile = fileAtStart

\* C6: a link whose fetch times out gets no row in the Report Table and is
\* not added to the processed set, the loop goes on with the next link, and
\* the next run has the link among the links to scrape.
C6_TimeoutRetriedNextRun ==
    [][ /\ (timedOut' # timedOut /\ run' = run) =>
              /\ i' = i + 1
              /\ pc' = AfterIteration(i + 1, Len(report_links))
              /\ UNCHANGED << all_data, scraped_links, reportsFile,
                              processed_count, report_links >>
        /\ \A l \in timedOut' :
              /\ l \notin TableLinks(reportsFile')
              /\ Str(l) \notin scraped_links'
        /\ (pc = "scrape" /\ pc' # "scrape") =>
              prevTimedOut \subseteq Range(report_links')
      ]_vars

\* C6 witness: the second run is about to fetch a link that timed out in
\* the first
C6_Witness ==
    /\ run = 2
    /\ pc = "loop"
    /\ href \in prevTimedOut
    /\ TableLinks(reportsFile) # {}

\* C7: once the ban signature is found the run is over: the loop is left
\* in that step, and from then on no link is fetched and no record is
\* extracted or marked processed; the banned link was fetched once.
C7_BanTerminatesRun ==
    [][ /\ (banned' /\ ~banned) =>
              /\ pc' \in { "finish", "crashed" }
              /\ fetched'[Len(fetched')] \notin Range(fetched)
              /\ UNCHANGED << all_data, processed_count, scraped_links,
                              reportsFile >>
        /\ (banned /\ run' = run) =>
              /\ pc' # "loop"
              /\ UNCHANGED << fetched, all_data, processed_count,
                              scraped_links, i >>
      ]_vars

\* C7 witness: a run ended by a ban with links left unfetched
C7_Witness ==
    /\ banned
    /\ pc = "done"
    /\ processed_count >= 1
    /\ Len(fetched) < Len(report_links)

\* C8: a batch flush leaves the Report Table with no two rows sharing a
\* Link value, whether or not the table existed before the flush.
C8_FlushUnique ==
    (pc = "cleanup" /\ flushes = 1) => NoDuplicateLinks(reportsFile)

\* C8 witness: a batch was merged into an existing table that held some of
\* its links, duplicated
C8_Witness ==
    /\ pc = "cleanup"
    /\ flushes = 1
    /\ fileAtStart.exists
    /\ ~NoDuplicateLinks(fileAtStart)
    /\ TableLinks(fileAtStart) \cap BatchLinks # {}
    /\ BatchLinks \subseteq TableLinks(reportsFile)

\* C9: the set of Link values of the Report Table never loses an element,
\* and a flush makes it the previous set united with the links of the batch.
C9_TableGrows ==
    [][ /\ TableLinks(reportsFile) \subseteq TableLinks(reportsFile')
        /\ flushes' = flushes + 1 =>
              TableLinks(reportsFile') =
                  TableLinks(reportsFile)
                      \cup { all_data[k].Link : k \in 1..Len(all_data) }
                      \cup { href }
      ]_vars

\* C9 witness: the second run flushed a batch into the table of the first
C9_Witness ==
    /\ run = 2
    /\ flushes >= 1
    /\ TableLinks(fileAtStart) # {}
    /\ TableLinks(fileAtStart) # TableLinks(reportsFile)

\* C10: a call of get_all_report_links that finds LINKS_FILE returns the
\* links stored in it, fetches no start page and leaves the file as it is;
\* the file is written only by a call that found it absent.
C10_LinkSetReused ==
    [][ /\ (pc = "links" /\ pc' # "links" /\ linksFile.exists) =>
              /\ pc' = "scrape"
              /\ Range(report_links') = Range(linksFile.lines)
              /\ startFetches' = startFetches
              /\ linksFile' = linksFile
        /\ linksFile' # linksFile => (pc = "links" /\ ~linksFile.exists)
      ]_vars

\* C10 witness: the second run loaded the file the first run wrote
C10_Witness ==
    /\ run = 2
    /\ pc = "scrape"
    /\ startFetches = 1
    /\ Len(report_links) >= 2

\* each element the page lacks has its placeholder in the record
Placeholders(page, record) ==
    /\ page.title = Missing => record.Title = "Unknown Title"
    /\ page.substance = Missing => record.Substance = "Unknown Substance"
    /\ page.author = Missing => record.Author = "Unknown"
    /\ page.bodyweight = Missing => record.Bodyweight = "Unknown"
    /\ page.dosechart = << >> => record.DoseChart = "No Dose Chart Available"
    /\ page.report_text = Missing => record.ReportText = "No Text Available"

\* C11: whatever subset of the elements a fetched report page lacks, the
\* extraction succeeds with one record whose Link is the fetched link and
\* in which each missing field holds its placeholder (Author "Unknown");
\* the record is appended, or written by the flush of the same iteration.
C11_MissingFieldsPlaceholders ==
    [][ fetched' # fetched =>
          /\ processed_count' = processed_count + 1
          /\ Str(href) \in scraped_links'
          /\ IF flushes' = flushes
             THEN /\ Len(all_data') = Len(all_data) + 1
                  /\ SubSeq(all_data', 1, Len(all_data)) = all_data
                  /\ all_data'[Len(all_data')].Link = href
                  /\ Placeholders(soup', all_data'[Len(all_data')])
             ELSE LET row == reportsFile'.rows[Len(reportsFile'.rows)]
                  IN  /\ row.Link = href
                      /\ soup'.title = Missing => row.Title = "Unknown Title"
      ]_vars

\* C11 witness: a record extracted from a page without author, title and
\* dose chart, the other elements present
C11_Witness ==
    /\ pc = "loop"
    /\ Len(all_data) = 1
    /\ soup.author = Missing /\ soup.title = Missing /\ soup.dosechart = << >>
    /\ soup.substance # Missing /\ soup.bodyweight # Missing
    /\ soup.report_text # Missing
    /\ all_data[1].Author = "Unknown"
    /\ all_data[1].Substance = "LSD"
    /\ all_data[1].Link = report_links[1]

\* C12: a link whose page is an off-domain redirect or whose extraction
\* raises is skipped: no record of it enters the accumulator or the Report
\* Table, it is not added to the processed set, accumulator, processed set
\* and table stay as they were, and the loop goes on with the next link.
C12_RedirectAndErrorSkipped ==
    [][ ( /\ run' = run
          /\ fetched' # fetched
          /\ soup' \in { BlankPage, DeepPage } ) =>
          /\ UNCHANGED << all_data, scraped_links, reportsFile,
                          processed_count, flushes >>
          /\ Str(href) \notin scraped_links'
          /\ href \notin TableLinks(reportsFile')
          /\ i' = i + 1
          /\ pc' = AfterIteration(i + 1, Len(report_links))
      ]_vars

\* C12 witness: the extraction of the second link raised while the record
\* of the first was in the accumulator, and a third link is next
C12_Witness ==
    /\ pc = "loop"
    /\ soup = DeepPage
    /\ Len(fetched) = 2
    /\ Len(all_data) = 1
    /\ all_data[1].Link = fetched[1]
    /\ Str(fetched[2]) \notin scraped_links

\* C13: a page is fetched only for a link that is not in the processed set
\* (no row in the Report Table at run start, not extracted earlier in the
\* run) and that starts with the domain prefix, and for no link twice in a
\* run, however often LINKS_FILE lists it.
C13_FetchOnlyNewValidOnce ==
    [][ (fetched' # fetched /\ run' = run) =>
          /\ fetched' = Append(fetched, href)
          /\ Str(href) \notin scraped_links
          /\ href \notin TableLinks(fileAtStart)
          /\ startswith_erowid(href)
          /\ href \notin Range(fetched)
      ]_vars

\* C13 witness: LINKS_FILE lists one link twice, its fetch timed out, and
\* the run ended with that one fetch
C13_Witness ==
    /\ pc = "done"
    /\ Len(linksFile.lines) = 2
    /\ linksFile.lines[1] = linksFile.lines[2]
    /\ fetched = << linksFile.lines[1] >>
    /\ timedOut = { linksFile.lines[1] }

\* the place of x in a list without repetitions
Pos(list, x) == CHOOSE k \in 1..Len(list) : list[k] = x

\* the links of f are links of list, in the order in which list has them
InOrderOf(list, f) ==
    \A j, k \in 1..Len(f) :
        j < k => /\ f[j] \in Range(list) /\ f[k] \in Range(list)
                 /\ Pos(list, f[j]) < Pos(list, f[k])

\* the Link Collector wrote LINKS_FILE in this run: line 41 writes the list
\* that line 43 returns, so the file has the links in the collected order
CollectedThisRun == run = 1 /\ startFetches = 1 /\ linksFile.exists

\* C14, as claimed: links are fetched in the relative order in which the
\* Link Collector produced them (here for a run whose collector wrote
\* LINKS_FILE, which then holds the collected list).
C14_CollectedOrder == CollectedThisRun => InOrderOf(linksFile.lines, fetched)

\* C14, amended: links are fetched in the order of the list that lines
\* 58-59 build from the collected links, list(set(report_links)) without
\* the processed ones; that list has the collected links in the iteration
\* order of a new set, which need not be the order they were collected in.
C14_LoopListOrder ==
    pc \in { "loop", "finish", "cleanup", "done" } =>
        /\ InOrderOf(report_links, fetched)
        /\ \A k \in 1..Len(fetched) : Pos(report_links, fetched[k]) <= i + 1

\* C14 witness: two links fetched in the order of the loop's list, which
\* is not the order the collector returned them in
C14_Witness ==
    /\ CollectedThisRun
    /\ pc = "done"
    /\ Len(fetched) = 2
    /\ InOrderOf(report_links, fetched)
    /\ ~InOrderOf(linksFile.lines, fetched)

\* C15: the browser session is released exactly once on each exit path,
\* at the end of the loop or at ban detection, and never a second time.
C15_BrowserReleasedOnce ==
    /\ quits <= 1
    /\ pc \in { "cleanup", "done" } => quits = 1

\* C16: when a ban ends the run, every record extracted earlier in the run
\* has its row in the Report Table when the process ends.
C16_BanKeepsExtracted ==
    (banned /\ pc \in { "done", "crashed" }) =>
        \A c \in scraped_links : c.v \in TableLinks(reportsFile)

\* the links of the records in the accumulator
AccumulatorLinks(records) == { records[k].Link : k \in 1..Len(records) }

\* C17: in the loop every link of the processed set has a row in the
\* Report Table or a record in the accumulator, and a link enters the
\* processed set only in the step that appends its record (which the flush
\* of the same iteration may already have written).
C17_ProcessedHasRecord ==
    [][ /\ pc' \in { "loop", "finish" } =>
              \A c \in scraped_links' :
                  \/ c.v \in TableLinks(reportsFile')
                  \/ c.v \in AccumulatorLinks(all_data')
        /\ (pc = "loop" /\ scraped_links' # scraped_links) =>
              /\ scraped_links' = scraped_links \cup { Str(href) }
              /\ processed_count' = processed_count + 1
              /\ IF flushes' = flushes
                 THEN /\ Len(all_data') = Len(all_data) + 1
                      /\ all_data'[Len(all_data')].Link = href
                 ELSE href \in TableLinks(reportsFile')
      ]_vars

\* C17 witness: in a second run, one processed link has its row in the
\* table and another its record in the accumulator
C17_Witness ==
    /\ run = 2
    /\ pc = "loop"
    /\ \E c \in scraped_links :
          c.v \in TableLinks(reportsFile) /\ c.v \notin AccumulatorLinks(all_data)
    /\ \E c \in scraped_links :
          c.v \notin TableLinks(reportsFile) /\ c.v \in AccumulatorLinks(all_data)

\* C18: the accumulator never holds more than BATCH_SIZE records, and it is
\* empty right after each flush.
C18_AccumulatorBounded ==
    [][ /\ Len(all_data') <= BATCH_SIZE
        /\ flushes' = flushes + 1 => all_data' = << >>
      ]_vars
====
